---- MODULE Spec2Model ----
(***************************************************************************)
(* The job pipeline of server/routes.ts: POST /api/jobs creates a job and  *)
(* launches processJob for it without awaiting it; processJob drives the   *)
(* job through fetch, summarize, speech, render and (optionally) publish,  *)
(* writing status and progress to the job store between the stages.        *)
(* Every await of processJob is one action: runs of different jobs         *)
(* interleave at the awaits.                                               *)
(***************************************************************************)
EXTENDS Integers, FiniteSets, Sequences, TLC

\* Number of job ids the store hands out in one behaviour.
MaxJobs == 2

JobIds == 1..MaxJobs

\* An optional value: absent (the omitted progress argument of
\* updateJobStatus, a field not read yet), or present.
Undefined == <<>>
Value(n) == <<n>>

\* The null error.
Null == "null"

\* Error messages (the message property of the Error thrown).
JobNotFound == "Job not found"
NoArticlesFound == "No articles found"
MissingUrlMp4 == "Video service did not return urlMp4"
VideoServiceError == "Video service error"
GNewsError == "gnews error"
SummarizeError == "summarize error"
TTSError == "TTS service error"
PublishError == "publish error"
StoreError == "store error"
NoError == "none"

VARIABLES
    jobs,       \* the jobs table: id -> [status, progress, error]
    articles,   \* number of Article rows per job id
    summaries,  \* number of Summary rows per job id
    audios,     \* number of Audio rows per job id
    videos,     \* number of Video rows per job id
    run,        \* the processJob run of each job: its await and its locals
    apiKey,     \* HuggingFaceNLP.apiKey is configured
    summ,       \* one call of HuggingFaceNLP.summarize: its await and locals
    lastHealthCheck,      \* HuggingFaceNLP.lastHealthCheck
    lastHealthCheckTime,  \* HuggingFaceNLP.lastHealthCheckTime
    now,        \* Date.now()
    check,      \* the calls of HuggingFaceNLP.checkHealth
    sched       \* the scheduler: its timers, its pause flag, what it has done

pipelineVars == <<jobs, articles, summaries, audios, videos, run>>
nlpVars == <<apiKey, summ, lastHealthCheck, lastHealthCheckTime, now, check>>
vars == <<jobs, articles, summaries, audios, videos, run, apiKey, summ,
          lastHealthCheck, lastHealthCheckTime, now, check, sched>>

artifactVars == <<articles, summaries, audios, videos>>

\* A job id the store has not handed out yet.
NoJob == [status |-> "none", progress |-> 0, error |-> Null]

\* A run that has not been launched: pc is the await it stands at, thrown the
\* error bound by processJob's catch clause and failedAt the await that threw
\* it, rejection the error processJob rejected with, fetched the list
\* fetchArticles returned, rendered the video service's response, calls the
\* adapters called so far, autoPublish the job's flag once the run has read
\* it. (The request's topic, language, targetLength and autoPublish are
\* written once, at creation, and by nothing else; the flag enters the model
\* where processJob reads it.)
NoRun == [pc |-> "idle", thrown |-> NoError, failedAt |-> "none",
          rejection |-> NoError, fetched |-> "none", rendered |-> "none",
          calls |-> {}, autoPublish |-> Undefined]

\* HuggingFaceNLP: retry policy and health-check cache.
maxRetries == 5
initialTimeout == 30000
healthCheckCacheDuration == 60000

\* await this.sleep(2000 * attempt)
retryDelay == 2000

\* Number of checkHealth calls in one behaviour, and of clock advances.
MaxCalls == 3
MaxClock == 3

Callers == 1..MaxCalls

\* The clock advances by half a cache window at a time. It starts well past
\* one cache window: lastHealthCheckTime starts at 0 and Date.now() counts
\* from 1970.
ClockStep == healthCheckCacheDuration \div 2
ClockStart == 2 * healthCheckCacheDuration

\* summarize before it is called: pc is the await it stands at, attempt the
\* loop variable, log one entry per remote call made (its timeout, what the
\* remote answered, the sleep that followed it), lastError the variable of
\* that name, thrown the error summarize threw. An error is the pair of its
\* kind and the attempt it arose in (0 outside the loop).
NoSummarize == [pc |-> "idle", attempt |-> 0, log |-> <<>>,
                lastError |-> Undefined, thrown |-> Undefined]

\* A checkHealth call before it is made: at is its local now, remote whether
\* it made the remote request and outcome what came of it, result what it
\* returned. The calls are numbered in the order they are made.
NoCheck == [pc |-> "idle", at |-> 0, remote |-> FALSE, outcome |-> "none",
            result |-> Undefined]

\* Number of start() calls, of timer intervals and of manual sync requests
\* in one behaviour.
MaxStarts == 2
MaxTicks == 3
MaxSyncs == 2

\* The scheduler before start(): timers the periodic timers armed, paused
\* the pause flag, starts the start() calls made, ticks the intervals
\* elapsed, due the timer callbacks of the current interval still to run and
\* ran the sync cycles run in it, syncs the manual sync requests served,
\* last what the latest callback or request did and by which of the two it
\* was, switch the latest of pause() and resume(), failed whether a
\* scheduled cycle has failed, skipped whether a callback found the
\* automation paused.
NoSched == [timers |-> 0, paused |-> FALSE, starts |-> 0, ticks |-> 0,
            due |-> 0, ran |-> 0, syncs |-> 0, last |-> "none",
            by |-> "none", switch |-> "none", failed |-> FALSE,
            skipped |-> FALSE]

\* The scheduler once registerRoutes has called scheduler.start().
Started == [NoSched EXCEPT !.timers = 1, !.starts = 1]

PipelineInit ==
    /\ jobs = [j \in JobIds |-> NoJob]
    /\ articles = [j \in JobIds |-> 0]
    /\ summaries = [j \in JobIds |-> 0]
    /\ audios = [j \in JobIds |-> 0]
    /\ videos = [j \in JobIds |-> 0]
    /\ run = [j \in JobIds |-> NoRun]

\* The adapter object as constructed, with or without HUGGINGFACE_API_KEY.
NLPInit(keys) ==
    /\ apiKey \in keys
    /\ summ = NoSummarize
    /\ lastHealthCheck = TRUE
    /\ lastHealthCheckTime = 0
    /\ now = ClockStart
    /\ check = [c \in Callers |-> NoCheck]

Init ==
    /\ PipelineInit
    /\ NLPInit({TRUE})
    /\ sched = Started

----
\* The job store (server/storage.ts).

\* storage.createJob: a new row with the schema's defaults.
createJob(j) ==
    jobs' = [jobs EXCEPT ![j] = [status |-> "pending", progress |-> 0,
                                 error |-> Null]]

\* storage.updateJobStatus(id, status, error?, progress?): an omitted progress
\* leaves the column as it is; a missing row is left missing.
updateJobStatus(j, st, er, pr) ==
    jobs' = IF jobs[j].status = "none" THEN jobs
            ELSE [jobs EXCEPT ![j].status = st,
                              ![j].error = er,
                              ![j].progress = IF pr = Undefined THEN @ ELSE pr[1]]

\* storage.create<Artifact>: one more row for the job in that table.
insertRow(table, j) == [table EXCEPT ![j] = @ + 1]

----
\* processJob (server/routes.ts), one action per await.

\* The run record moved to another await, after an adapter call, after a throw.
goto(r, p) == [r EXCEPT !.pc = p]
called(r, adapter) == [r EXCEPT !.calls = @ \cup {adapter}]
throw(r, msg) == [r EXCEPT !.pc = "catch", !.thrown = msg, !.failedAt = r.pc]

Goto(j, p) == run' = [run EXCEPT ![j] = goto(@, p)]

\* An error thrown inside the try block: control goes to the catch clause.
Throw(j, msg) == run' = [run EXCEPT ![j] = throw(@, msg)]

\* POST /api/jobs: create the job and launch processJob without awaiting it.
\* The store hands out ids in order.
CreateJob(j) ==
    /\ jobs[j].status = "none"
    /\ \A k \in JobIds : k < j => jobs[k].status # "none"
    /\ createJob(j)
    /\ Goto(j, "setRunning")
    /\ UNCHANGED artifactVars

\* A status write that waits while the automation is paused.
StatusWriteWhenRunning(j, at, st, pr, next) ==
    /\ ~sched.paused
    /\ run[j].pc = at
    /\ \E ok \in BOOLEAN :
        IF ok THEN updateJobStatus(j, st, Null, Value(pr)) /\ Goto(j, next)
        ELSE Throw(j, StoreError) /\ UNCHANGED jobs
    /\ UNCHANGED artifactVars

\* A status write between two stages: await storage.updateJobStatus(jobId,
\* st, null, pr), which throws when the store fails.
StatusWrite(j, at, st, pr, next) ==
    /\ run[j].pc = at
    /\ \E ok \in BOOLEAN :
        IF ok THEN updateJobStatus(j, st, Null, Value(pr)) /\ Goto(j, next)
        ELSE Throw(j, StoreError) /\ UNCHANGED jobs
    /\ UNCHANGED artifactVars

\* await storage.updateJobStatus(jobId, "running", null, 10)
SetRunning(j) == StatusWrite(j, "setRunning", "running", 10, "getJob")

\* const job = await storage.getJobById(jobId); if (!job) throw ...
GetJob(j) ==
    /\ run[j].pc = "getJob"
    /\ \E ok \in BOOLEAN :
        IF ~ok THEN Throw(j, StoreError)
        ELSE IF jobs[j].status = "none" THEN Throw(j, JobNotFound)
        ELSE Goto(j, "fetch")
    /\ UNCHANGED <<jobs, artifactVars>>

\* What the article source answers: a list with articles or an empty list.
FetchResults == {"some", "empty"}

\* afterFetch as it would be without the check of articles.length.
afterFetchUnchecked(r, list) == goto(r, "createArticle")

\* if (!articles.length) throw new Error("No articles found")
afterFetch(r, list) ==
    IF list = "empty" THEN throw(r, NoArticlesFound) ELSE goto(r, "createArticle")

\* const articles = await gnewsService.fetchArticles(job.topic, job.language)
FetchArticles(j) ==
    /\ run[j].pc = "fetch"
    /\ \/ \E list \in FetchResults :
            run' = [run EXCEPT ![j] =
                        afterFetch([called(@, "gnews") EXCEPT !.fetched = list], list)]
       \/ run' = [run EXCEPT ![j] = throw(called(@, "gnews"), GNewsError)]
    /\ UNCHANGED <<jobs, artifactVars>>

\* const article = await storage.createArticle({... articles[0] ...})
CreateArticle(j) ==
    /\ run[j].pc = "createArticle"
    /\ \E ok \in BOOLEAN :
        IF ok THEN articles' = insertRow(articles, j) /\ Goto(j, "progress25")
        ELSE Throw(j, StoreError) /\ UNCHANGED articles
    /\ UNCHANGED <<jobs, summaries, audios, videos>>

\* Progress25 as it would be if the summarizer were called without waiting
\* for the status write.
Progress25NotAwaited(j) ==
    /\ run[j].pc = "progress25"
    /\ Goto(j, "summarize")
    /\ UNCHANGED <<jobs, artifactVars>>

\* await storage.updateJobStatus(jobId, "running", null, 25)
Progress25(j) == StatusWrite(j, "progress25", "running", 25, "summarize")

\* const summaryText = await nlpService.summarize(...)
Summarize(j) ==
    /\ run[j].pc = "summarize"
    /\ \E ok \in BOOLEAN :
        run' = [run EXCEPT ![j] =
                    IF ok THEN goto(called(@, "nlp"), "createSummary")
                    ELSE throw(called(@, "nlp"), SummarizeError)]
    /\ UNCHANGED <<jobs, artifactVars>>

\* const summary = await storage.createSummary({...})
CreateSummary(j) ==
    /\ run[j].pc = "createSummary"
    /\ \E ok \in BOOLEAN :
        IF ok THEN summaries' = insertRow(summaries, j) /\ Goto(j, "progress50")
        ELSE Throw(j, StoreError) /\ UNCHANGED summaries
    /\ UNCHANGED <<jobs, articles, audios, videos>>

\* await storage.updateJobStatus(jobId, "running", null, 50)
Progress50(j) == StatusWrite(j, "progress50", "running", 50, "tts")

\* const audioResult = await videoService.generateTTS(summary.text, job.language)
GenerateTTS(j) ==
    /\ run[j].pc = "tts"
    /\ \E ok \in BOOLEAN :
        run' = [run EXCEPT ![j] =
                    IF ok THEN goto(called(@, "tts"), "createAudio")
                    ELSE throw(called(@, "tts"), TTSError)]
    /\ UNCHANGED <<jobs, artifactVars>>

\* CreateAudio as it would be if a failed insert were swallowed: the run goes
\* on to render with no Audio row.
CreateAudioSwallowsFailure(j) ==
    /\ run[j].pc = "createAudio"
    /\ \E ok \in BOOLEAN :
        /\ audios' = IF ok THEN insertRow(audios, j) ELSE audios
        /\ Goto(j, "progress75")
    /\ UNCHANGED <<jobs, articles, summaries, videos>>

\* const audio = await storage.createAudio({...})
CreateAudio(j) ==
    /\ run[j].pc = "createAudio"
    /\ \E ok \in BOOLEAN :
        IF ok THEN audios' = insertRow(audios, j) /\ Goto(j, "progress75")
        ELSE Throw(j, StoreError) /\ UNCHANGED audios
    /\ UNCHANGED <<jobs, articles, summaries, videos>>

\* await storage.updateJobStatus(jobId, "running", null, 75)
Progress75(j) == StatusWrite(j, "progress75", "running", 75, "render")

\* What the video service answers to POST /render: a body with urlMp4, a body
\* without it, or a non-OK status.
RenderResponses == {"ok", "noUrlMp4", "httpError"}

\* renderVideo as it would be without the check of result.urlMp4.
renderVideoUnchecked(resp) ==
    IF resp = "httpError" THEN VideoServiceError ELSE NoError

\* VideoService.renderVideo: the message of the error it throws on that
\* response, NoError when it returns a result.
renderVideo(resp) ==
    IF resp = "httpError" THEN VideoServiceError
    ELSE IF resp = "noUrlMp4" THEN MissingUrlMp4
    ELSE NoError

\* const videoResult = await videoService.renderVideo({...})
RenderVideo(j) ==
    /\ run[j].pc = "render"
    /\ \E resp \in RenderResponses :
        run' = [run EXCEPT ![j] =
                    LET r == [called(@, "render") EXCEPT !.rendered = resp]
                    IN  IF renderVideo(resp) = NoError THEN goto(r, "createVideo")
                        ELSE throw(r, renderVideo(resp))]
    /\ UNCHANGED <<jobs, artifactVars>>

\* CreateVideo as it would be if a failed insert were ignored.
CreateVideoSwallowsFailure(j) ==
    /\ run[j].pc = "createVideo"
    /\ \E ok \in BOOLEAN :
        /\ videos' = IF ok THEN insertRow(videos, j) ELSE videos
        /\ Goto(j, "complete")
    /\ UNCHANGED <<jobs, articles, summaries, audios>>

\* const video = await storage.createVideo({...})
CreateVideo(j) ==
    /\ run[j].pc = "createVideo"
    /\ \E ok \in BOOLEAN :
        IF ok THEN videos' = insertRow(videos, j) /\ Goto(j, "complete")
        ELSE Throw(j, StoreError) /\ UNCHANGED videos
    /\ UNCHANGED <<jobs, articles, summaries, audios>>

\* afterCompleted as it would be if the publish call were not guarded.
afterCompletedAlwaysPublish(r, flag) ==
    goto([r EXCEPT !.autoPublish = Value(flag)], "publish")

\* if (job.autoPublish) ...: where the run goes once "completed" is written,
\* flag being the autoPublish the job was created with.
afterCompleted(r, flag) ==
    goto([r EXCEPT !.autoPublish = Value(flag)],
         IF flag THEN "publish" ELSE "resolved")

\* await storage.updateJobStatus(jobId, "completed", null, 100), then the
\* read of job.autoPublish.
Complete(j) ==
    /\ run[j].pc = "complete"
    /\ \E ok \in BOOLEAN :
        IF ok THEN /\ updateJobStatus(j, "completed", Null, Value(100))
                   /\ \E flag \in BOOLEAN :
                        run' = [run EXCEPT ![j] = afterCompleted(@, flag)]
        ELSE Throw(j, StoreError) /\ UNCHANGED jobs
    /\ UNCHANGED artifactVars

\* await youtubeService.publishVideo(job, video)
Publish(j) ==
    /\ run[j].pc = "publish"
    /\ \E ok \in BOOLEAN :
        run' = [run EXCEPT ![j] =
                    IF ok THEN goto(called(@, "youtube"), "resolved")
                    ELSE throw(called(@, "youtube"), PublishError)]
    /\ UNCHANGED <<jobs, artifactVars>>

\* RecordFailure as it would be if the catch clause re-entered processJob
\* after recording the failure.
RecordFailureRetries(j) ==
    /\ run[j].pc = "catch"
    /\ updateJobStatus(j, "failed", run[j].thrown, Undefined)
    /\ Goto(j, "setRunning")
    /\ UNCHANGED artifactVars

\* RecordFailure as it would be if the catch clause deleted the job's
\* artifacts before recording the failure.
RecordFailureRollsBack(j) ==
    /\ run[j].pc = "catch"
    /\ updateJobStatus(j, "failed", run[j].thrown, Undefined)
    /\ Goto(j, "resolved")
    /\ articles' = [articles EXCEPT ![j] = 0]
    /\ summaries' = [summaries EXCEPT ![j] = 0]
    /\ audios' = [audios EXCEPT ![j] = 0]
    /\ videos' = [videos EXCEPT ![j] = 0]

\* RecordFailure as it would be if the catch clause re-threw the error after
\* recording the failure.
RecordFailureRethrows(j) ==
    /\ run[j].pc = "catch"
    /\ \E ok \in BOOLEAN :
        /\ jobs' = IF ok THEN [jobs EXCEPT ![j].status = "failed",
                                           ![j].error = run[j].thrown]
                   ELSE jobs
        /\ run' = [run EXCEPT ![j].pc = "rejected",
                              ![j].rejection = IF ok THEN run[j].thrown
                                               ELSE StoreError]
    /\ UNCHANGED artifactVars

\* RecordFailure as it would be if the catch clause passed progress 0 along
\* with the "failed" status.
RecordFailureResetsProgress(j) ==
    /\ run[j].pc = "catch"
    /\ \E ok \in BOOLEAN :
        IF ok THEN /\ updateJobStatus(j, "failed", run[j].thrown, Value(0))
                   /\ Goto(j, "resolved")
        ELSE /\ run' = [run EXCEPT ![j].pc = "rejected",
                                   ![j].rejection = StoreError]
             /\ UNCHANGED jobs
    /\ UNCHANGED artifactVars

\* RecordFailure as it would be if the catch clause marked every job that
\* has a row as failed, not only its own.
RecordFailureMarksAll(j) ==
    /\ run[j].pc = "catch"
    /\ jobs' = [k \in JobIds |->
                IF jobs[k].status = "none" THEN jobs[k]
                ELSE [jobs[k] EXCEPT !.status = "failed",
                                     !.error = run[j].thrown]]
    /\ Goto(j, "resolved")
    /\ UNCHANGED artifactVars

\* catch (error) { await storage.updateJobStatus(jobId, "failed", message) }:
\* when this write fails the error leaves processJob, which rejects.
RecordFailure(j) ==
    /\ run[j].pc = "catch"
    /\ \E ok \in BOOLEAN :
        IF ok THEN /\ updateJobStatus(j, "failed", run[j].thrown, Undefined)
                   /\ Goto(j, "resolved")
        ELSE /\ run' = [run EXCEPT ![j].pc = "rejected",
                                   ![j].rejection = StoreError]
             /\ UNCHANGED jobs
    /\ UNCHANGED artifactVars

\* RejectionHandler as it would be if it only logged the error.
RejectionHandlerOnlyLogs(j) ==
    /\ run[j].pc = "rejected"
    /\ Goto(j, "handled")
    /\ UNCHANGED <<jobs, artifactVars>>

\* processJob(job.id).catch(error => storage.updateJobStatus(job.id, "failed",
\* error.message)): the write is not awaited; when it fails nothing records it.
RejectionHandler(j) ==
    /\ run[j].pc = "rejected"
    /\ \E ok \in BOOLEAN :
        IF ok THEN /\ updateJobStatus(j, "failed", run[j].rejection, Undefined)
                   /\ Goto(j, "handled")
        ELSE Goto(j, "unhandled") /\ UNCHANGED jobs
    /\ UNCHANGED artifactVars

Next ==
    \/ \E j \in JobIds : CreateJob(j) /\ UNCHANGED <<nlpVars, sched>>
    \/ \E j \in JobIds : SetRunning(j) /\ UNCHANGED <<nlpVars, sched>>
    \/ \E j \in JobIds : GetJob(j) /\ UNCHANGED <<nlpVars, sched>>
    \/ \E j \in JobIds : FetchArticles(j) /\ UNCHANGED <<nlpVars, sched>>
    \/ \E j \in JobIds : CreateArticle(j) /\ UNCHANGED <<nlpVars, sched>>
    \/ \E j \in JobIds : Progress25(j) /\ UNCHANGED <<nlpVars, sched>>
    \/ \E j \in JobIds : Summarize(j) /\ UNCHANGED <<nlpVars, sched>>
    \/ \E j \in JobIds : CreateSummary(j) /\ UNCHANGED <<nlpVars, sched>>
    \/ \E j \in JobIds : Progress50(j) /\ UNCHANGED <<nlpVars, sched>>
    \/ \E j \in JobIds : GenerateTTS(j) /\ UNCHANGED <<nlpVars, sched>>
    \/ \E j \in JobIds : CreateAudio(j) /\ UNCHANGED <<nlpVars, sched>>
    \/ \E j \in JobIds : Progress75(j) /\ UNCHANGED <<nlpVars, sched>>
    \/ \E j \in JobIds : RenderVideo(j) /\ UNCHANGED <<nlpVars, sched>>
    \/ \E j \in JobIds : CreateVideo(j) /\ UNCHANGED <<nlpVars, sched>>
    \/ \E j \in JobIds : Complete(j) /\ UNCHANGED <<nlpVars, sched>>
    \/ \E j \in JobIds : Publish(j) /\ UNCHANGED <<nlpVars, sched>>
    \/ \E j \in JobIds : RecordFailure(j) /\ UNCHANGED <<nlpVars, sched>>
    \/ \E j \in JobIds : RejectionHandler(j) /\ UNCHANGED <<nlpVars, sched>>

Spec == Init /\ [][Next]_vars

----
\* Vocabulary of the properties.

Statuses == {"pending", "running", "completed", "failed"}
Terminal == {"completed", "failed"}
ProgressValues == {0, 10, 25, 50, 75, 100}

\* The awaits of steps 1-4 of processJob (everything before "completed").
Steps14 == {"setRunning", "getJob", "fetch", "createArticle", "progress25",
            "summarize", "createSummary", "progress50", "tts", "createAudio",
            "progress75", "render", "createVideo"}

\* processJob has settled: resolved, or rejected with the handler finished.
Ended(j) == run[j].pc \in {"resolved", "handled", "unhandled"}

\* The rows of job j in the four artifact tables.
Rows(j) == <<articles[j], summaries[j], audios[j], videos[j]>>

TypeOK ==
    /\ \A j \in JobIds : jobs[j].status \in Statuses \cup {"none"}
    /\ \A j \in JobIds : Rows(j) \in Nat \X Nat \X Nat \X Nat

----
\* C1: when the publish adapter fails in the auto-publish step, the job's
\* status stays "completed". (The catch clause of processJob encloses the
\* publish call, so the code records "failed".)
C1_PublishFailureKeepsCompleted ==
    \A j \in JobIds :
        (run[j].thrown = PublishError /\ Ended(j)) => jobs[j].status = "completed"

\* C2: every progress value a job ever holds is one of 0, 10, 25, 50, 75,
\* 100, and no write, on the success path or on a failure path, lowers it.
C2_ProgressMonotone ==
    /\ [](\A j \in JobIds : jobs[j].progress \in ProgressValues)
    /\ [][\A j \in JobIds : jobs'[j].progress >= jobs[j].progress]_vars

\* C2 witness: a run failed after progress 75 was written and the failure was
\* recorded, the job still showing 75.
C2_Witness ==
    \E j \in JobIds :
        /\ run[j].pc = "resolved"
        /\ jobs[j].status = "failed"
        /\ jobs[j].progress = 75

\* C3: once a job's status is "completed" or "failed", no step of processJob
\* and no step of the rejection handler writes a different status. (The
\* publish failure of C1 turns "completed" into "failed".)
C3_TerminalStatusKept ==
    [][\A j \in JobIds :
          jobs[j].status \in Terminal => jobs'[j].status = jobs[j].status]_vars

\* C4: a run whose article source returned an empty list creates no Article,
\* Summary, Audio or Video, calls no adapter but the article source, never
\* marks the job completed, and once the failure is recorded (by the catch
\* clause, or by the rejection handler when the catch clause's write failed)
\* the job is "failed"; recorded by the catch clause, the message is "No
\* articles found".
C4_EmptyListFails ==
    \A j \in JobIds :
        run[j].fetched = "empty" =>
            /\ Rows(j) = <<0, 0, 0, 0>>
            /\ run[j].calls = {"gnews"}
            /\ jobs[j].status # "completed"
            /\ run[j].pc \in {"resolved", "handled"} => jobs[j].status = "failed"
            /\ run[j].pc = "resolved" => jobs[j].error = NoArticlesFound

\* C4 witness: a run that got an empty list has resolved with the job failed.
C4_Witness ==
    \E j \in JobIds :
        /\ run[j].fetched = "empty"
        /\ run[j].pc = "resolved"
        /\ jobs[j].status = "failed"

\* C5: a run whose render response has no urlMp4 keeps the Article, Summary
\* and Audio it persisted, creates no Video, never marks the job completed,
\* and once the failure is recorded the job is "failed".
C5_MissingUrlFails ==
    \A j \in JobIds :
        run[j].rendered = "noUrlMp4" =>
            /\ Rows(j) = <<1, 1, 1, 0>>
            /\ jobs[j].status # "completed"
            /\ run[j].pc \in {"resolved", "handled"} => jobs[j].status = "failed"
            /\ run[j].pc = "resolved" => jobs[j].error = MissingUrlMp4

\* C5 witness: a run that got a response without urlMp4 has resolved with the
\* job failed and three artifacts persisted.
C5_Witness ==
    \E j \in JobIds :
        /\ run[j].rendered = "noUrlMp4"
        /\ run[j].pc = "resolved"
        /\ jobs[j].status = "failed"
        /\ Rows(j) = <<1, 1, 1, 0>>

\* C6: a run of a job with autoPublish false in which nothing threw (every
\* adapter call and store operation succeeded) ends with status completed,
\* progress 100, one row in each artifact table, and no publish call.
C6_HappyPath ==
    \A j \in JobIds :
        (Ended(j) /\ run[j].thrown = NoError /\ run[j].autoPublish = Value(FALSE)) =>
            /\ jobs[j].status = "completed"
            /\ jobs[j].progress = 100
            /\ Rows(j) = <<1, 1, 1, 1>>
            /\ "youtube" \notin run[j].calls

\* C6 witness: such a run has ended.
C6_Witness ==
    \E j \in JobIds :
        /\ run[j].pc = "resolved"
        /\ run[j].thrown = NoError
        /\ run[j].autoPublish = Value(FALSE)
        /\ run[j].calls = {"gnews", "nlp", "tts", "render"}

\* No later artifact without its predecessor.
PredecessorsExist(j) ==
    /\ videos[j] > 0 => audios[j] > 0
    /\ audios[j] > 0 => summaries[j] > 0
    /\ summaries[j] > 0 => articles[j] > 0

\* Each artifact is created before any later one exists.
CreatedInOrder(j) ==
    /\ articles'[j] > articles[j] => <<summaries[j], audios[j], videos[j]>> = <<0, 0, 0>>
    /\ summaries'[j] > summaries[j] => <<audios[j], videos[j]>> = <<0, 0>>
    /\ audios'[j] > audios[j] => videos[j] = 0

\* C7: in every state a Video exists only if an Audio does, an Audio only if
\* a Summary does, a Summary only if an Article does; and the artifacts are
\* created in the order Article, Summary, Audio, Video.
C7_ArtifactOrder ==
    /\ [](\A j \in JobIds : PredecessorsExist(j))
    /\ [][\A j \in JobIds : CreatedInOrder(j)]_vars

\* C7 witness: a job holds an Article, a Summary and an Audio and no Video yet.
C7_Witness == \E j \in JobIds : Rows(j) = <<1, 1, 1, 0>>

C9_FailureAlwaysRecorded ==
    \A j \in JobIds :
        (run[j].failedAt \in Steps14 /\ Ended(j)) =>
            jobs[j].status = "failed" /\ jobs[j].error = run[j].thrown

\* After a failure in steps 1-4 the run calls no further adapter and changes
\* no artifact row (the failing step itself changes none either).
StopsAndKeeps(j) ==
    run'[j].failedAt \in Steps14 =>
        /\ <<articles'[j], summaries'[j], audios'[j], videos'[j]>> = Rows(j)
        /\ run[j].failedAt \in Steps14 => run'[j].calls = run[j].calls

\* C9 amended: when a call or write of steps 1-4 fails, the run calls no
\* further stage and leaves every persisted artifact as it is; the job
\* becomes "failed" with that error's message when the catch clause's status
\* write succeeds. When that write fails, the rejection handler's write
\* records "failed" with the store error's message, and when it fails too
\* the job keeps the status it had.
C9_FailureRecordedWhenWriteSucceeds ==
    /\ [](\A j \in JobIds :
            run[j].failedAt \in Steps14 =>
                /\ run[j].pc = "resolved" =>
                      jobs[j].status = "failed" /\ jobs[j].error = run[j].thrown
                /\ run[j].pc = "handled" =>
                      jobs[j].status = "failed" /\ jobs[j].error = run[j].rejection
                /\ run[j].pc = "unhandled" => jobs[j].status \in {"pending", "running"})
    /\ [][\A j \in JobIds : StopsAndKeeps(j)]_vars

\* C9 witness: the summarizer failed after the Article was persisted; the
\* failure is recorded and the Article is still there.
C9_Witness ==
    \E j \in JobIds :
        /\ run[j].failedAt = "summarize"
        /\ run[j].pc = "resolved"
        /\ jobs[j].status = "failed"
        /\ jobs[j].error = SummarizeError
        /\ Rows(j) = <<1, 0, 0, 0>>

\* C10 as stated: processJob never rejects.
C10_NeverRejects ==
    \A j \in JobIds : run[j].pc \notin {"rejected", "handled", "unhandled"}

\* C10 amended: every error thrown inside the try block is caught, and
\* processJob then resolves with the job recorded as failed with the error's
\* message; processJob rejects only when the catch clause's own status write
\* fails, with the store's error and with the job not recorded as failed by
\* it.
C10_RejectsOnlyWhenRecordingFails ==
    \A j \in JobIds :
        /\ (run[j].pc = "resolved" /\ run[j].thrown # NoError) =>
              /\ jobs[j].status = "failed"
              /\ jobs[j].error = run[j].thrown
              /\ jobs[j].error # Null
        /\ run[j].pc = "rejected" =>
              /\ run[j].thrown # NoError
              /\ run[j].rejection = StoreError
              /\ jobs[j].status # "failed"

\* C10 witness: an adapter failed and processJob resolved with the job failed.
C10_Witness ==
    \E j \in JobIds :
        /\ run[j].thrown = TTSError
        /\ run[j].pc = "resolved"
        /\ jobs[j].status = "failed"
        /\ jobs[j].error = TTSError

----
\* HuggingFaceNLP.summarize, one await at a time.

healthVars == <<lastHealthCheck, lastHealthCheckTime, now, check>>

\* What the remote can answer to one request: a summary, HTTP 504, another
\* non-OK status, a body with an error field, a body without summary_text,
\* the AbortController firing, fetch rejecting for another reason.
RemoteOutcomes == {"ok", "http504", "http500", "errorPayload", "badFormat",
                   "abort", "network"}

\* The errors summarize retries on purpose.
Retried == {"http504", "abort"}

NotConfigured == <<"HUGGINGFACE_API_KEY not configured", 0>>
FailedAfterRetries == <<"Failed to generate summary after retries", 0>>

RECURSIVE backoffExponential(_)

\* A wait that doubles with every attempt.
backoffExponential(attempt) ==
    IF attempt = 1 THEN retryDelay ELSE 2 * backoffExponential(attempt - 1)

\* await this.sleep(2000 * attempt)
backoff(attempt) == retryDelay * attempt

\* The request timeout without the attempt factor.
requestTimeoutFixed(attempt) == initialTimeout

\* const timeout = this.initialTimeout * attempt
requestTimeout(attempt) == initialTimeout * attempt

\* What the loop body does with the answer to one attempt. The 504 branch
\* sleeps and continues inside the try. Everything else that is not a
\* summary is thrown inside the try and lands in the loop's own catch, which
\* sleeps and continues on an abort, rethrows on the last attempt, and
\* otherwise ends: the for statement then starts the next attempt.
afterAttempt(outcome, attempt) ==
    IF outcome = "ok" THEN "return"
    ELSE IF outcome = "http504" /\ attempt < maxRetries THEN "sleep"
    ELSE IF outcome = "abort" /\ attempt < maxRetries THEN "sleep"
    ELSE IF attempt = maxRetries THEN "throw"
    ELSE "next"

\* A catch clause that keeps the first error it saw.
caughtKeepsFirst(outcome, attempt, lastError) ==
    IF outcome = "ok" \/ (outcome = "http504" /\ attempt < maxRetries)
    THEN lastError
    ELSE IF lastError = Undefined THEN Value(<<outcome, attempt>>)
    ELSE lastError

\* lastError after the answer: the catch clause assigns it, the 504 branch
\* and the return do not pass through the catch.
caught(outcome, attempt, lastError) ==
    IF outcome = "ok" \/ (outcome = "http504" /\ attempt < maxRetries)
    THEN lastError
    ELSE Value(<<outcome, attempt>>)

\* attempt++ and the loop test; after the loop, throw lastError || new Error.
nextAttempt(s) ==
    IF s.attempt + 1 <= maxRetries
    THEN [s EXCEPT !.pc = "fetch", !.attempt = @ + 1]
    ELSE [s EXCEPT !.pc = "thrown",
                   !.thrown = IF s.lastError = Undefined
                              THEN Value(FailedAfterRetries)
                              ELSE s.lastError]

\* summarize(text): the key test, then the first attempt's request.
SummarizeCall ==
    /\ summ.pc = "idle"
    /\ summ' = IF apiKey
               THEN [summ EXCEPT !.pc = "fetch", !.attempt = 1]
               ELSE [summ EXCEPT !.pc = "thrown",
                                 !.thrown = Value(NotConfigured)]
    /\ UNCHANGED <<apiKey, pipelineVars, healthVars, sched>>

\* await fetch(...) settles, and the loop body runs up to its next await.
SummarizeResponse ==
    /\ summ.pc = "fetch"
    /\ \E outcome \in RemoteOutcomes :
        LET n == summ.attempt
            does == afterAttempt(outcome, n)
            s == [summ EXCEPT
                    !.log = Append(@, [timeout |-> requestTimeout(n),
                                       outcome |-> outcome,
                                       wait |-> IF does = "sleep"
                                                THEN backoff(n) ELSE 0]),
                    !.lastError = caught(outcome, n, @)]
        IN  summ' = CASE does = "return" -> [s EXCEPT !.pc = "returned"]
                      [] does = "sleep" -> [s EXCEPT !.pc = "sleep"]
                      [] does = "throw" -> [s EXCEPT !.pc = "thrown",
                                                     !.thrown = s.lastError]
                      [] OTHER -> nextAttempt(s)
    /\ UNCHANGED <<apiKey, pipelineVars, healthVars, sched>>

\* await this.sleep(2000 * attempt) is over; continue.
SummarizeWake ==
    /\ summ.pc = "sleep"
    /\ summ' = nextAttempt(summ)
    /\ UNCHANGED <<apiKey, pipelineVars, healthVars, sched>>

SummInit ==
    /\ PipelineInit
    /\ NLPInit(BOOLEAN)
    /\ sched = Started

SummNext ==
    \/ SummarizeCall
    \/ SummarizeResponse
    \/ SummarizeWake

SummSpec == SummInit /\ [][SummNext]_vars

\* Every request is answered or aborted by its timer, and every sleep ends.
SummFairSpec ==
    SummSpec /\ WF_vars(SummarizeResponse) /\ WF_vars(SummarizeWake)

\* The answers of the attempts so far, in order.
Answers == [n \in 1..Len(summ.log) |-> summ.log[n].outcome]

SummDone == summ.pc \in {"returned", "thrown"}

SummTypeOK ==
    /\ summ.pc \in {"idle", "fetch", "sleep", "returned", "thrown"}
    /\ summ.attempt \in 0..maxRetries
    /\ Len(summ.log) \in 0..maxRetries

----
\* C11: in summarize, an answer that is neither HTTP 504 nor a client-side
\* timeout is not retried: it is the last remote call, and summarize has
\* thrown that error.
C11_OtherErrorsNotRetried ==
    \A n \in 1..Len(summ.log) :
        summ.log[n].outcome \notin Retried \cup {"ok"} =>
            /\ n = Len(summ.log)
            /\ summ.pc = "thrown"
            /\ summ.thrown = Value(<<summ.log[n].outcome, n>>)

\* C12: when the remote answers 504, 504 and then a summary, summarize
\* returns it after exactly three requests whose timeouts are one, two and
\* three times the base timeout, each longer than the one before.
C12_TwoGatewayTimeoutsThenSuccess ==
    (/\ Len(summ.log) >= 3
     /\ summ.log[1].outcome = "http504"
     /\ summ.log[2].outcome = "http504"
     /\ summ.log[3].outcome = "ok") =>
        /\ summ.pc = "returned"
        /\ summ.thrown = Undefined
        /\ Len(summ.log) = 3
        /\ \A n \in 1..3 : summ.log[n].timeout = n * initialTimeout
        /\ \A n \in 1..2 : summ.log[n].timeout < summ.log[n + 1].timeout

C12_Witness ==
    /\ Answers = <<"http504", "http504", "ok">>
    /\ summ.pc = "returned"

\* C13: summarize makes at most 5 requests whatever the remote answers; once
\* called it returns or throws; and when the fifth attempt fails, what it
\* throws is the fifth attempt's error.
C13_BoundedAttempts ==
    /\ [](/\ Len(summ.log) <= 5
          /\ summ.attempt <= 5
          /\ (summ.pc = "thrown" /\ Len(summ.log) = 5) =>
                summ.thrown = Value(<<summ.log[5].outcome, 5>>))
    /\ (summ.pc # "idle") ~> SummDone

C13_Witness ==
    /\ summ.pc = "thrown"
    /\ Len(summ.log) = 5
    /\ Answers[5] = "http504"
    /\ \E n \in 1..4 : Answers[n] = "abort"

----
\* HuggingFaceNLP.checkHealth, one await at a time.

\* What the remote can answer to the health request: an OK status, a non-OK
\* status, the 15 s AbortController firing, fetch rejecting otherwise.
HealthOutcomes == {"ok", "notOk", "abort", "network"}

\* A timeout always reported as down and cached.
afterCheckTimeoutIsDown(outcome, last) ==
    IF outcome \in {"ok", "notOk"}
    THEN [result |-> (outcome = "ok"), store |-> TRUE]
    ELSE [result |-> FALSE, store |-> TRUE]

\* What checkHealth does with the answer, given this.lastHealthCheck as it
\* is when the answer arrives: the boolean it returns, and whether it writes
\* that boolean and its local now into the cache.
afterCheck(outcome, last) ==
    IF outcome \in {"ok", "notOk"}
    THEN [result |-> (outcome = "ok"), store |-> TRUE]
    ELSE IF outcome = "abort" /\ last
    THEN [result |-> last, store |-> FALSE]
    ELSE [result |-> FALSE, store |-> TRUE]

\* checkHealth(): the key test, const now = Date.now(), the cache test, and
\* the request when the cache is stale.
HealthCall(c) ==
    /\ check[c].pc = "idle"
    /\ \A b \in Callers : b < c => check[b].pc # "idle"
    /\ check' = [check EXCEPT ![c] =
            IF ~apiKey
            THEN [@ EXCEPT !.pc = "done", !.result = Value(FALSE)]
            ELSE IF now - lastHealthCheckTime < healthCheckCacheDuration
            THEN [@ EXCEPT !.pc = "done", !.at = now,
                           !.result = Value(lastHealthCheck)]
            ELSE [@ EXCEPT !.pc = "fetch", !.at = now, !.remote = TRUE]]
    /\ UNCHANGED <<lastHealthCheck, lastHealthCheckTime, now>>
    /\ UNCHANGED <<apiKey, summ, pipelineVars, sched>>

\* await fetch(...) settles: the cache update and the return, or the catch.
HealthResponse(c) ==
    /\ check[c].pc = "fetch"
    /\ \E outcome \in HealthOutcomes :
        LET does == afterCheck(outcome, lastHealthCheck)
        IN  /\ check' = [check EXCEPT ![c] =
                    [@ EXCEPT !.pc = "done", !.outcome = outcome,
                              !.result = Value(does.result)]]
            /\ IF does.store
               THEN /\ lastHealthCheck' = does.result
                    /\ lastHealthCheckTime' = check[c].at
               ELSE UNCHANGED <<lastHealthCheck, lastHealthCheckTime>>
    /\ UNCHANGED now
    /\ UNCHANGED <<apiKey, summ, pipelineVars, sched>>

\* Time passes.
ClockTick ==
    /\ now < ClockStart + MaxClock * ClockStep
    /\ now' = now + ClockStep
    /\ UNCHANGED <<lastHealthCheck, lastHealthCheckTime, check>>
    /\ UNCHANGED <<apiKey, summ, pipelineVars, sched>>

HealthInit ==
    /\ PipelineInit
    /\ NLPInit(BOOLEAN)
    /\ sched = Started

HealthNext ==
    \/ \E c \in Callers : HealthCall(c)
    \/ \E c \in Callers : HealthResponse(c)
    \/ ClockTick

HealthSpec == HealthInit /\ [][HealthNext]_vars

HealthTypeOK ==
    /\ lastHealthCheck \in BOOLEAN
    /\ lastHealthCheckTime \in 0..now
    /\ \A c \in Callers :
        /\ check[c].pc \in {"idle", "fetch", "done"}
        /\ check[c].outcome \in HealthOutcomes \cup {"none"}
        /\ check[c].pc = "done" => check[c].result \in {<<TRUE>>, <<FALSE>>}

----
\* C14: two checkHealth calls begun within one cache window of each other,
\* in any order or interleaving and whatever the first was answered, make at
\* most one remote request between them and return the same boolean.
C14_TwoCallsOneRemote ==
    \A a, b \in Callers :
        (/\ a # b
         /\ check[a].pc = "done" /\ check[b].pc = "done"
         /\ check[b].at - check[a].at \in 0..(healthCheckCacheDuration - 1)) =>
            /\ ~(check[a].remote /\ check[b].remote)
            /\ check[a].result = check[b].result

\* C15: when the request of a fresh check times out, checkHealth returns the
\* boolean the cache holds at that moment, be it true or false.
C15_TimeoutReturnsCached ==
    [][\A c \in Callers :
        (/\ check[c].pc = "fetch"
         /\ check'[c].pc = "done"
         /\ check'[c].outcome = "abort") =>
            check'[c].result = Value(lastHealthCheck)]_vars

\* One fresh check timed out over a cached true and another over a cached
\* false.
C15_Witness ==
    \E a, b \in Callers :
        /\ check[a].outcome = "abort" /\ check[a].result = Value(TRUE)
        /\ check[b].outcome = "abort" /\ check[b].result = Value(FALSE)

----
\* The automation controller (server/jobs/scheduler.ts) and its routes.

\* The jobs created so far, and the id the store hands out next.
NumJobs == Cardinality({j \in JobIds : jobs[j].status # "none"})
NextId == NumJobs + 1

\* One sync cycle, run by who ("tick" or "sync") on the scheduler record s:
\* it creates a job and launches its pipeline run, or job creation fails.
\* The jobs table of the model has room for MaxJobs jobs.
cycle(s, who) ==
    /\ NextId \in JobIds
    /\ \E ok \in BOOLEAN :
        IF ok
        THEN /\ createJob(NextId)
             /\ Goto(NextId, "setRunning")
             /\ sched' = [s EXCEPT !.last = "created", !.by = who]
        ELSE /\ UNCHANGED <<jobs, run>>
             /\ sched' = [s EXCEPT !.last = "failed", !.by = who,
                                   !.failed = @ \/ who = "tick"]
    /\ UNCHANGED artifactVars

\* A start() that arms a timer on every call.
StartArmsAnother ==
    /\ sched.starts < MaxStarts
    /\ sched' = [sched EXCEPT !.starts = @ + 1, !.timers = @ + 1]
    /\ UNCHANGED <<pipelineVars, nlpVars>>

\* scheduler.start(): arms the periodic timer unless one is armed.
Start ==
    /\ sched.starts < MaxStarts
    /\ sched' = [sched EXCEPT !.starts = @ + 1,
                              !.timers = IF @ = 0 THEN 1 ELSE @]
    /\ UNCHANGED <<pipelineVars, nlpVars>>

\* A pause route that answers without setting the flag.
PauseOnlyAnswers ==
    /\ sched' = [sched EXCEPT !.switch = "pause"]
    /\ UNCHANGED <<pipelineVars, nlpVars>>

\* POST /api/system/pause: scheduler.pauseAutomation().
Pause ==
    /\ sched' = [sched EXCEPT !.paused = TRUE, !.switch = "pause"]
    /\ UNCHANGED <<pipelineVars, nlpVars>>

\* POST /api/system/resume: scheduler.resumeAutomation().
Resume ==
    /\ sched' = [sched EXCEPT !.paused = FALSE, !.switch = "resume"]
    /\ UNCHANGED <<pipelineVars, nlpVars>>

\* One interval of the periodic timer elapses: the callback of every armed
\* timer becomes due.
Interval ==
    /\ sched.timers > 0
    /\ sched.due = 0
    /\ sched.ticks < MaxTicks
    /\ sched' = [sched EXCEPT !.ticks = @ + 1, !.due = sched.timers,
                              !.ran = 0]
    /\ UNCHANGED <<pipelineVars, nlpVars>>

\* A callback whose failure escapes and takes the timer with it.
TickStopsOnFailure ==
    /\ sched.due > 0
    /\ IF sched.paused
       THEN /\ sched' = [sched EXCEPT !.due = @ - 1, !.last = "skipped",
                                      !.by = "tick", !.skipped = TRUE]
            /\ UNCHANGED pipelineVars
       ELSE /\ NextId \in JobIds
            /\ \E ok \in BOOLEAN :
                IF ok
                THEN /\ createJob(NextId)
                     /\ Goto(NextId, "setRunning")
                     /\ sched' = [sched EXCEPT !.due = @ - 1, !.ran = @ + 1,
                                      !.last = "created", !.by = "tick"]
                ELSE /\ UNCHANGED <<jobs, run>>
                     /\ sched' = [sched EXCEPT !.due = 0, !.ran = @ + 1,
                                      !.timers = 0, !.last = "failed",
                                      !.by = "tick", !.failed = TRUE]
            /\ UNCHANGED artifactVars
    /\ UNCHANGED nlpVars

\* A due timer callback runs: nothing while paused, else one sync cycle whose
\* failure is caught and logged.
Tick ==
    /\ sched.due > 0
    /\ IF sched.paused
       THEN /\ sched' = [sched EXCEPT !.due = @ - 1, !.last = "skipped",
                                      !.by = "tick", !.skipped = TRUE]
            /\ UNCHANGED pipelineVars
       ELSE cycle([sched EXCEPT !.due = @ - 1, !.ran = @ + 1], "tick")
    /\ UNCHANGED nlpVars

\* A manual sync that honours the pause flag.
TriggerSyncGated ==
    /\ sched.syncs < MaxSyncs
    /\ IF sched.paused
       THEN /\ sched' = [sched EXCEPT !.syncs = @ + 1, !.last = "skipped",
                                      !.by = "sync"]
            /\ UNCHANGED pipelineVars
       ELSE cycle([sched EXCEPT !.syncs = @ + 1], "sync")
    /\ UNCHANGED nlpVars

\* POST /api/system/sync: await scheduler.triggerNewsSync(), one sync cycle
\* whatever the pause flag says.
TriggerSync ==
    /\ sched.syncs < MaxSyncs
    /\ cycle([sched EXCEPT !.syncs = @ + 1], "sync")
    /\ UNCHANGED nlpVars

SchedInit ==
    /\ PipelineInit
    /\ NLPInit({TRUE})
    /\ sched = NoSched

SchedNext ==
    \/ Start
    \/ Pause
    \/ Resume
    \/ Interval
    \/ Tick
    \/ TriggerSync

SchedSpec == SchedInit /\ [][SchedNext]_vars

SchedTypeOK ==
    /\ sched.timers \in 0..1
    /\ sched.paused \in BOOLEAN
    /\ sched.starts \in 0..MaxStarts
    /\ sched.ticks \in 0..MaxTicks
    /\ sched.due \in 0..sched.timers
    /\ sched.syncs \in 0..MaxSyncs
    /\ sched.last \in {"none", "skipped", "created", "failed"}
    /\ sched.by \in {"none", "tick", "sync"}
    /\ sched.switch \in {"none", "pause", "resume"}

\* This step is a timer callback; this step is a manual sync request.
TickStep == sched'.due < sched.due
SyncStep == sched'.syncs > sched.syncs

\* This step ran a sync cycle that created exactly one job, or one whose job
\* creation failed and that created none.
RanOneCycle ==
    /\ sched'.last \in {"created", "failed"}
    /\ NumJobs' = NumJobs + (IF sched'.last = "created" THEN 1 ELSE 0)

----
\* C16: a timer callback that runs after pause() creates no job, and one
\* that runs after a later resume() runs one sync cycle, which creates
\* exactly one job (none only if job creation itself fails).
C16_PauseStopsTicksResumeRestores ==
    [][TickStep =>
        /\ sched.switch = "pause" =>
            /\ jobs' = jobs
            /\ run' = run
            /\ sched'.last = "skipped"
        /\ sched.switch = "resume" => RanOneCycle]_vars

\* A callback was skipped while paused, and after resume() the latest
\* callback has created a job.
C16_Witness ==
    /\ sched.skipped
    /\ sched.switch = "resume"
    /\ sched.by = "tick"
    /\ sched.last = "created"

\* C17: a manual sync request runs one sync cycle and creates a job whether
\* or not the automation is paused, and leaves the pause flag, the timer and
\* the timer's interval as they are.
C17_ManualSyncBypassesPause ==
    [][SyncStep =>
        /\ RanOneCycle
        /\ sched'.by = "sync"
        /\ sched'.paused = sched.paused
        /\ sched'.switch = sched.switch
        /\ sched'.timers = sched.timers
        /\ sched'.ticks = sched.ticks
        /\ sched'.due = sched.due]_vars

C17_Witness ==
    /\ sched.paused
    /\ sched.by = "sync"
    /\ sched.last = "created"
    /\ NumJobs >= 1

\* C18: after one or more start() calls exactly one periodic timer is armed,
\* and no interval runs more than one sync cycle.
C18_StartIdempotent ==
    sched.starts >= 1 =>
        /\ sched.timers = 1
        /\ sched.due <= 1
        /\ sched.ran <= 1

C18_Witness ==
    /\ sched.starts >= 2
    /\ sched.timers = 1
    /\ sched.ticks >= 1
    /\ sched.ran = 1

\* C19: a scheduled cycle whose job creation failed leaves the timer armed,
\* and every later callback that finds the automation running runs a sync
\* cycle.
C19_FailedCycleKeepsTimer ==
    /\ [](sched.failed => sched.timers = 1)
    /\ [][(TickStep /\ sched.failed /\ ~sched.paused) =>
            /\ sched'.last \in {"created", "failed"}
            /\ sched'.ran = sched.ran + 1
            /\ sched'.timers = sched.timers]_vars

\* A scheduled cycle failed, and the latest callback has created a job.
C19_Witness ==
    /\ sched.failed
    /\ sched.by = "tick"
    /\ sched.last = "created"

----
\* Pipeline runs with the operator pausing and resuming the automation.

\* The next step of the processJob run of job j, whichever await it is at.
ProcessJobStep(j) ==
    /\ \/ SetRunning(j) \/ GetJob(j) \/ FetchArticles(j) \/ CreateArticle(j)
       \/ Progress25(j) \/ Summarize(j) \/ CreateSummary(j) \/ Progress50(j)
       \/ GenerateTTS(j) \/ CreateAudio(j) \/ Progress75(j) \/ RenderVideo(j)
       \/ CreateVideo(j) \/ Complete(j) \/ Publish(j) \/ RecordFailure(j)
       \/ RejectionHandler(j)
    /\ UNCHANGED <<nlpVars, sched>>

PauseNext ==
    \/ \E j \in JobIds : CreateJob(j) /\ UNCHANGED <<nlpVars, sched>>
    \/ \E j \in JobIds : ProcessJobStep(j)
    \/ Pause
    \/ Resume

PauseSpec == Init /\ [][PauseNext]_vars

\* Launched and not yet settled.
InFlight(j) == run[j].pc \notin {"idle", "resolved", "handled", "unhandled"}

----
\* C20: pause() and resume() leave every pipeline run as it is, no step of
\* processJob touches the scheduler's state, and a run in flight can take
\* its next step whether the automation is paused or not.
C20_PauseLeavesRunsAlone ==
    /\ [][(sched' # sched) => UNCHANGED pipelineVars]_vars
    /\ [][(pipelineVars' # pipelineVars) => sched' = sched]_vars
    /\ [](\A j \in JobIds : InFlight(j) => ENABLED ProcessJobStep(j))

\* A run went from step 1 to completed with the automation paused on the way
\* and still paused.
C20_Witness ==
    \E j \in JobIds :
        /\ sched.paused
        /\ run[j].pc = "resolved"
        /\ jobs[j].status = "completed"

----
\* C21: within one run the stages follow one another: the summarizer is
\* called only once the Article is stored and progress 25 written, speech
\* synthesis only once the Summary is stored and 50 written, the renderer
\* only once the Audio is stored and 75 written; completed/100 is written
\* only once the Video is stored; the publish adapter is called only once
\* completed/100 is written and only for a job with autoPublish set.
C21_StagesSequential ==
    \A j \in JobIds :
        /\ (run[j].pc = "summarize" \/ "nlp" \in run[j].calls) =>
            /\ "gnews" \in run[j].calls
            /\ articles[j] >= 1
            /\ jobs[j].progress >= 25
        /\ (run[j].pc = "tts" \/ "tts" \in run[j].calls) =>
            /\ "nlp" \in run[j].calls
            /\ summaries[j] >= 1
            /\ jobs[j].progress >= 50
        /\ (run[j].pc = "render" \/ "render" \in run[j].calls) =>
            /\ "tts" \in run[j].calls
            /\ audios[j] >= 1
            /\ jobs[j].progress >= 75
        /\ jobs[j].progress = 100 =>
            /\ "render" \in run[j].calls
            /\ videos[j] >= 1
        /\ (run[j].pc = "publish" \/ "youtube" \in run[j].calls) =>
            /\ jobs[j].progress = 100
            /\ run[j].autoPublish = Value(TRUE)

\* A run that went through every stage and published.
C21_Witness ==
    \E j \in JobIds :
        /\ run[j].pc = "resolved"
        /\ run[j].calls = {"gnews", "nlp", "tts", "render", "youtube"}
        /\ jobs[j].status = "completed"

----
\* C22: whenever attempt n < 5 of summarize ends with HTTP 504 or a
\* client-side timeout, a wait of 2000 ms x n follows it, and attempt n + 1
\* starts only out of that wait.
C22_LinearBackoff ==
    /\ [](\A n \in 1..Len(summ.log) :
            (n < 5 /\ summ.log[n].outcome \in Retried) =>
                /\ summ.log[n].wait = 2000 * n
                /\ (n = Len(summ.log) /\ summ.attempt = n) => summ.pc = "sleep")
    /\ [][(/\ summ.attempt >= 1
           /\ summ'.attempt = summ.attempt + 1
           /\ summ'.log[summ.attempt].outcome \in Retried) =>
                /\ summ.pc = "sleep"
                /\ summ'.log[summ.attempt].wait = 2000 * summ.attempt]_vars

\* The remote timed out on attempt 1 and answered 504 on attempt 3; attempt 4
\* is under way after waits of 2000 and 6000 ms.
C22_Witness ==
    /\ Len(summ.log) = 3
    /\ summ.pc = "fetch"
    /\ summ.attempt = 4
    /\ summ.log[1].outcome = "abort" /\ summ.log[1].wait = 2000
    /\ summ.log[3].outcome = "http504" /\ summ.log[3].wait = 6000

----
\* C23: runs of different jobs can be running at the same time, and a step
\* of the run of one job leaves the status, progress, error, artifacts and
\* run of every other job as they are.
C23_RunsDoNotInterfere ==
    [][\A a \in JobIds :
        run'[a] # run[a] =>
            \A b \in JobIds \ {a} :
                /\ jobs'[b] = jobs[b]
                /\ Rows(b)' = Rows(b)
                /\ run'[b] = run[b]]_vars

\* Two jobs are running at once, one ahead of the other.
C23_Witness ==
    \E a, b \in JobIds :
        /\ a # b
        /\ jobs[a].status = "running" /\ jobs[a].progress = 50
        /\ jobs[b].status = "running" /\ jobs[b].progress = 10
        /\ run[a].pc = "tts"
        /\ run[b].pc = "fetch"

----
\* Every store write and adapter call a run is waiting for returns or fails.
FairSpec == Spec /\ \A j \in JobIds : WF_vars(ProcessJobStep(j))

----
\* C25: checkHealth returns true only when some remote health request of
\* this adapter has come back with an OK status; a first check that times
\* out does not return true.
C25_TrueOnlyAfterOk ==
    \A c \in Callers :
        check[c].result = Value(TRUE) =>
            \E d \in Callers : check[d].outcome = "ok"

\* C26: a job whose status is completed has progress 100, no error message,
\* and an Article, a Summary, an Audio and a Video stored for it.
C26_CompletedIsComplete ==
    \A j \in JobIds :
        jobs[j].status = "completed" =>
            /\ jobs[j].progress = 100
            /\ jobs[j].error = Null
            /\ articles[j] >= 1
            /\ summaries[j] >= 1
            /\ audios[j] >= 1
            /\ videos[j] >= 1

\* A job is completed while the run of another has failed.
C26_Witness ==
    \E a, b \in JobIds :
        /\ jobs[a].status = "completed"
        /\ run[a].pc = "resolved"
        /\ jobs[b].status = "failed"

====
